---- MODULE Spec2Model ----
(***************************************************************************)
(* A model of cryptopia_api.py: the Api client (api_query, secure_headers) *)
(* and the unwrap decorator applied to api_query.                           *)
(*                                                                         *)
(* Text is modelled as a sequence of string tokens, so that an f-string or *)
(* a ''.join is the concatenation of sequences.  A Python mapping is a     *)
(* sequence of <<key, value>> pairs in insertion order.  A digest or an    *)
(* encoding is a tagged tuple of its arguments (an injective symbol).      *)
(* Time is counted in microseconds, the resolution of time.time().         *)
(***************************************************************************)
EXTENDS Integers, Sequences, FiniteSets, TLC

VARIABLES
    secret,     \* self.secret, a sequence of character classes
    clock,      \* wall clock, in microseconds
    pc,         \* per thread: "idle", "waiting" for the response, "done"
    call,       \* per thread: the arguments of its api_query call
    sent,       \* per thread: HTTP requests its call has issued
    signed,     \* per thread: secure_headers runs of its call
    response,   \* per thread: the envelope its call received
    notices,    \* per thread: messages its call printed
    outcome     \* per thread: what its call returned or raised

vars == <<secret, clock, pc, call, sent, signed, response, notices, outcome>>

-----------------------------------------------------------------------------
(* Bounds *)

MaxClock == 12

Threads == {1, 2}

-----------------------------------------------------------------------------
(* Python values *)

None == "<None>"
Absent == "<absent>"        \* marks a key a mapping does not hold
PyTrue == "True"
PyFalse == "False"

\* Python truth value of the values used here
Truthy(v) == v \notin {None, PyFalse, ""}

NoneParams == [isNone |-> TRUE, items |-> <<>>]
Mapping(items) == [isNone |-> FALSE, items |-> items]

-----------------------------------------------------------------------------
(* Api.__init__ *)

Key == "API_KEY"

Public ==
    {"GetCurrencies", "GetTradePairs", "GetMarkets", "GetMarket",
     "GetMarketHistory", "GetMarketOrders", "GetMarketOrderGroups"}

Private ==
    {"GetBalance", "GetDepositAddress", "GetOpenOrders", "GetTradeHistory",
     "GetTransactions", "SubmitTrade", "CancelTrade", "SubmitTip",
     "SubmitWithdraw", "SubmitTransfer"}

\* names of neither catalog: a method name of the class, a mistyped operation
UnknownNames == {"get_balance", "GetOrders"}

FeatureNames == Public \cup Private \cup UnknownNames

\* a slip: the private branch tests the public catalog
InPrivateAsPublic(feature_requested) == feature_requested \in Public

\* feature_requested in self.private
InPrivate(feature_requested) == feature_requested \in Private

\* a slip: the public branch is an else, taken by every name left
InPublicElse(feature_requested) == feature_requested \notin Private

\* feature_requested in self.public
InPublic(feature_requested) == feature_requested \in Public

-----------------------------------------------------------------------------
(* Text helpers *)

\* sep.join(values)
RECURSIVE Join(_, _)
Join(sep, values) ==
    IF values = <<>> THEN <<>>
    ELSE IF Len(values) = 1 THEN <<Head(values)>>
    ELSE <<Head(values), sep>> \o Join(sep, Tail(values))

\* mapping.values(), in insertion order
RECURSIVE Values(_)
Values(items) ==
    IF items = <<>> THEN <<>>
    ELSE <<Head(items)[2]>> \o Values(Tail(items))

\* the "key": "value" members of a JSON object, in insertion order
RECURSIVE JsonMembers(_)
JsonMembers(items) ==
    IF items = <<>> THEN <<>>
    ELSE <<"\"", Head(items)[1], "\": \"", Head(items)[2], "\"">>
         \o (IF Len(items) > 1 THEN <<", ">> ELSE <<>>)
         \o JsonMembers(Tail(items))

\* json.dumps(post_parameters)
JsonDumps(post_parameters) ==
    IF post_parameters.isNone THEN <<"null">>
    ELSE <<"{">> \o JsonMembers(post_parameters.items) \o <<"}">>

-----------------------------------------------------------------------------
(* base64.b64decode(secret), validate=False: the decoder skips characters  *)
(* outside the alphabet, stops at a completed pad sequence, and fails only *)
(* when the data characters do not fill their last quad.                   *)

B64Alphabet ==
    {"A","B","C","D","E","F","G","H","I","J","K","L","M","N","O","P","Q","R",
     "S","T","U","V","W","X","Y","Z","a","b","c","d","e","f","g","h","i","j",
     "k","l","m","n","o","p","q","r","s","t","u","v","w","x","y","z","0","1",
     "2","3","4","5","6","7","8","9","+","/"}

B64Pad == "="

RECURSIVE B64Scan(_, _, _, _)
B64Scan(s, quad_pos, pads, data) ==
    IF s = <<>> THEN
        [ok |-> quad_pos = 0, bytes |-> <<"b64decode", data>>]
    ELSE IF Head(s) = B64Pad THEN
        IF quad_pos >= 2 /\ quad_pos + pads + 1 >= 4
        THEN [ok |-> TRUE, bytes |-> <<"b64decode", data>>]
        ELSE B64Scan(Tail(s), quad_pos,
                     IF quad_pos >= 2 THEN pads + 1 ELSE pads, data)
    ELSE IF Head(s) \notin B64Alphabet THEN
        B64Scan(Tail(s), quad_pos, pads, data)
    ELSE
        B64Scan(Tail(s), (quad_pos + 1) % 4, 0, Append(data, Head(s)))

B64Decode(s) == B64Scan(s, 0, 0, <<>>)

-----------------------------------------------------------------------------
(* Api.secure_headers *)

NonceScale == 100000
MicrosPerSecond == 1000000

\* a slip: the factor is left out, the nonce counts whole seconds
NonceSeconds(now) == now \div MicrosPerSecond

\* int(time.time() * 100000), the clock being read in microseconds
Nonce(now) == (now * NonceScale) \div MicrosPerSecond

\* base64.b64encode(md5(post_data).digest())
HashedPostParams(post_data) == <<"b64encode", <<"md5", post_data>>>>

\* key + "POST" + quote_plus(url).lower() + nonce + hashed_post_params
Signature(key, url, nonce, post_data) ==
    <<key, "POST", <<"lower", <<"quote_plus", url>>>>, <<"str", nonce>>,
      HashedPostParams(post_data)>>

\* the result of secure_headers: the headers, or the error b64decode raised
SecureHeaders(key, sec, url, post_data, now) ==
    LET nonce == Nonce(now)
        signature == Signature(key, url, nonce, post_data)
        decoded == B64Decode(sec)
        hmacsignature ==
            <<"b64encode", <<"hmac_sha256", decoded.bytes, signature>>>>
    IN  IF decoded.ok
        THEN [ok |-> TRUE,
              nonce |-> nonce,
              headers |-> [Authorization |->
                               <<"amx ", key, ":", hmacsignature, ":",
                                 <<"str", nonce>>>>,
                           ContentType |-> "application/json; charset=utf-8"]]
        ELSE [ok |-> FALSE,
              nonce |-> nonce,
              headers |-> [Authorization |-> <<>>, ContentType |-> ""]]

-----------------------------------------------------------------------------
(* The requests handed to the transport *)

BaseUrl == "https://www.cryptopia.co.nz/Api/"

NoHeaders == [Authorization |-> <<>>, ContentType |-> ""]

\* url of a private call
PrivateUrl(feature_requested) == <<BaseUrl, feature_requested>>

\* '/'.join(values) of the query parameters, "" when they are None
JoinedParameters(get_parameters) ==
    IF get_parameters.isNone THEN <<>>
    ELSE Join("/", Values(get_parameters.items))

\* url of a public call
PublicUrl(feature_requested, get_parameters) ==
    <<BaseUrl, feature_requested, "/">> \o JoinedParameters(get_parameters)

\* a slip: the body is left out of the request
PostRequestNoData(url, post_data, headers) ==
    [method |-> "POST", url |-> url, params |-> <<>>, data |-> <<>>,
     headers |-> headers]

\* requests.post(url, data=post_data, headers=headers)
PostRequest(url, post_data, headers) ==
    [method |-> "POST", url |-> url, params |-> <<>>, data |-> post_data,
     headers |-> headers]

\* requests.get(url, params=get_parameters), get_parameters being the joined text
GetRequest(url, joined) ==
    [method |-> "GET", url |-> url, params |-> joined, data |-> <<>>,
     headers |-> NoHeaders]

\* the URL the transport requests: a non-empty params text becomes the query
RequestedUrl(req) ==
    IF req.params = <<>> THEN req.url ELSE req.url \o <<"?">> \o req.params

-----------------------------------------------------------------------------
(* unwrap._wrapper *)

\* fn.__name__ of the function the decorator wraps
WrappedName == "api_query"

NoOutcome ==
    [kind |-> "none", exc |-> "", args |-> <<>>, function_name |-> "",
     error |-> "", value |-> ""]

Returned(v) == [NoOutcome EXCEPT !.kind = "returned", !.value = v]

Raised(exc, args) ==
    [NoOutcome EXCEPT !.kind = "raised", !.exc = exc, !.args = args]

RaisedApi(function_name, error) ==
    [NoOutcome EXCEPT !.kind = "raised", !.exc = "CryptopiaAPIException",
                      !.function_name = function_name, !.error = error]

\* the messages _wrapper prints for an envelope
UnwrapNotices(env) ==
    IF /\ env.Success # Absent
       /\ Truthy(env.Success)
       /\ env.Message # Absent
       /\ Truthy(env.Message)
    THEN <<env.Message>>
    ELSE <<>>

\* a slip: the Success flag is not looked at
UnwrapIgnoringSuccess(fn_name, env) ==
    IF env.Data = Absent THEN Raised("KeyError", <<"Data">>)
    ELSE Returned(env.Data)

\* a slip: a message is taken for a failure
UnwrapMessageFails(fn_name, env) ==
    IF env.Success = Absent THEN Raised("KeyError", <<"Success">>)
    ELSE IF ~Truthy(env.Success) THEN
        IF env.Error = Absent THEN Raised("KeyError", <<"Error">>)
        ELSE RaisedApi(fn_name, env.Error)
    ELSE IF env.Message # Absent /\ Truthy(env.Message) THEN
        RaisedApi(fn_name, env.Message)
    ELSE IF env.Data = Absent THEN Raised("KeyError", <<"Data">>)
    ELSE Returned(env.Data)

\* what _wrapper returns or raises for an envelope
Unwrap(fn_name, env) ==
    IF env.Success = Absent THEN Raised("KeyError", <<"Success">>)
    ELSE IF ~Truthy(env.Success) THEN
        IF env.Error = Absent THEN Raised("KeyError", <<"Error">>)
        ELSE RaisedApi(fn_name, env.Error)
    ELSE IF env.Data = Absent THEN Raised("KeyError", <<"Data">>)
    ELSE Returned(env.Data)

-----------------------------------------------------------------------------
(* Inputs *)

\* self.secret: well-formed base64, and texts that are not
Secrets ==
    {<<"Q", "U", "J", "D">>,         \* "QUJD", base64 of 3 bytes
     <<"Q", "U", "I", "=">>,         \* "QUI=", base64 of 2 bytes
     <<"Q", "U", "J">>,              \* "QUJ", a pad character short
     <<"Q">>,                        \* "Q", one character of a quad
     <<"!", "!", "!", "!">>,         \* "!!!!", no character of the alphabet
     <<"Q", "U", " ", "J", "D">>}    \* "QU JD", a blank inside

GetParameters ==
    {NoneParams,
     Mapping(<<>>),
     Mapping(<<<<"market", "DOT_BTC">>>>),
     Mapping(<<<<"market", "DOT_BTC">>, <<"hours", "24">>>>)}

PostParameters ==
    {NoneParams,
     Mapping(<<<<"Currency", "BTC">>>>)}

\* the parsed body of a response: any of the four keys may be missing
Envelopes ==
    [Success : {Absent, None, PyTrue, PyFalse},
     Error   : {Absent, None, "Insufficient Funds"},
     Message : {Absent, None, "", "ok"},
     Data    : {Absent, None, "{Balance: 1.5}"}]

NoCall == [feature |-> "", get |-> NoneParams, post |-> NoneParams]

Pending == "<no response>"

\* no response has been received
NoResponse ==
    [Success |-> Pending, Error |-> Pending, Message |-> Pending,
     Data |-> Pending]

-----------------------------------------------------------------------------
(* The state machine *)

Init ==
    /\ secret \in Secrets
    /\ clock = 0
    /\ pc = [t \in Threads |-> "idle"]
    /\ call = [t \in Threads |-> NoCall]
    /\ sent = [t \in Threads |-> <<>>]
    /\ signed = [t \in Threads |-> <<>>]
    /\ response = [t \in Threads |-> NoResponse]
    /\ notices = [t \in Threads |-> <<>>]
    /\ outcome = [t \in Threads |-> NoOutcome]

\* time passes
Tick ==
    /\ clock < MaxClock
    /\ clock' = clock + 1
    /\ UNCHANGED <<secret, pc, call, sent, signed, response, notices, outcome>>

\* thread t enters api_query through _wrapper, up to the HTTP request:
\* the private branch signs and posts, the public branch gets, and any other
\* name raises
ApiQuery(t, feature_requested, get_parameters, post_parameters) ==
    /\ pc[t] = "idle"
    /\ call' = [call EXCEPT ![t] = [feature |-> feature_requested,
                                    get |-> get_parameters,
                                    post |-> post_parameters]]
    /\ UNCHANGED <<response, notices>>
    /\ IF InPrivate(feature_requested) THEN
           LET url == PrivateUrl(feature_requested)
               post_data == JsonDumps(post_parameters)
               sh == SecureHeaders(Key, secret, url, post_data, clock)
           IN  /\ signed' = [signed EXCEPT ![t] =
                    <<[url |-> url, post_data |-> post_data, now |-> clock,
                       nonce |-> sh.nonce, ok |-> sh.ok,
                       headers |-> sh.headers]>>]
               /\ IF sh.ok THEN
                      /\ sent' = [sent EXCEPT ![t] =
                            <<PostRequest(url, post_data, sh.headers)>>]
                      /\ pc' = [pc EXCEPT ![t] = "waiting"]
                      /\ outcome' = [outcome EXCEPT ![t] = NoOutcome]
                  ELSE
                      /\ sent' = [sent EXCEPT ![t] = <<>>]
                      /\ pc' = [pc EXCEPT ![t] = "done"]
                      /\ outcome' = [outcome EXCEPT ![t] =
                            Raised("binascii.Error", <<"b64decode">>)]
       ELSE IF InPublic(feature_requested) THEN
           LET joined == JoinedParameters(get_parameters)
               url == PublicUrl(feature_requested, get_parameters)
           IN  /\ signed' = [signed EXCEPT ![t] = <<>>]
               /\ sent' = [sent EXCEPT ![t] = <<GetRequest(url, joined)>>]
               /\ pc' = [pc EXCEPT ![t] = "waiting"]
               /\ outcome' = [outcome EXCEPT ![t] = NoOutcome]
       ELSE
           /\ signed' = [signed EXCEPT ![t] = <<>>]
           /\ sent' = [sent EXCEPT ![t] = <<>>]
           /\ pc' = [pc EXCEPT ![t] = "done"]
           /\ outcome' = [outcome EXCEPT ![t] =
                 Raised("Exception",
                        <<"Unknown feature: ", feature_requested, ".">>)]
    /\ UNCHANGED <<secret, clock>>

\* the response of thread t's request arrives and _wrapper unwraps it
Receive(t, env) ==
    /\ pc[t] = "waiting"
    /\ response' = [response EXCEPT ![t] = env]
    /\ notices' = [notices EXCEPT ![t] = UnwrapNotices(env)]
    /\ outcome' = [outcome EXCEPT ![t] = Unwrap(WrappedName, env)]
    /\ pc' = [pc EXCEPT ![t] = "done"]
    /\ UNCHANGED <<secret, clock, call, sent, signed>>

\* the transport raises (connection failure, timeout, a body that is not JSON):
\* the error passes through api_query and _wrapper untouched
TransportError(t) ==
    /\ pc[t] = "waiting"
    /\ outcome' = [outcome EXCEPT ![t] =
          Raised("RequestException", <<"transport">>)]
    /\ pc' = [pc EXCEPT ![t] = "done"]
    /\ UNCHANGED <<secret, clock, call, sent, signed, response, notices>>

\* the call is over: its value or its exception is with the caller of
\* thread t, which may call again
Finish(t) ==
    /\ pc[t] = "done"
    /\ pc' = [pc EXCEPT ![t] = "idle"]
    /\ call' = [call EXCEPT ![t] = NoCall]
    /\ sent' = [sent EXCEPT ![t] = <<>>]
    /\ signed' = [signed EXCEPT ![t] = <<>>]
    /\ response' = [response EXCEPT ![t] = NoResponse]
    /\ notices' = [notices EXCEPT ![t] = <<>>]
    /\ outcome' = [outcome EXCEPT ![t] = NoOutcome]
    /\ UNCHANGED <<secret, clock>>

\* one thread using the client, at one reading of the clock: every operation
\* name, parameter shape and envelope
Next ==
    \/ \E f \in FeatureNames, g \in GetParameters, p \in PostParameters :
          ApiQuery(1, f, g, p)
    \/ \E env \in Envelopes : Receive(1, env)
    \/ TransportError(1)
    \/ Finish(1)

Spec == Init /\ [][Next]_vars

\* the private operation the threads of SpecClock call
ClockFeatures == {"GetBalance"}

\* the envelopes the threads of SpecClock receive
ClockEnvelopes ==
    {[Success |-> PyTrue, Error |-> None, Message |-> None,
      Data |-> "{Balance: 1.5}"],
     [Success |-> PyFalse, Error |-> "Insufficient Funds", Message |-> None,
      Data |-> None]}

\* two threads sharing the client while the clock advances
NextClock ==
    \/ \E t \in Threads, f \in ClockFeatures, p \in PostParameters :
          ApiQuery(t, f, NoneParams, p)
    \/ \E t \in Threads, env \in ClockEnvelopes : Receive(t, env)
    \/ \E t \in Threads : TransportError(t)
    \/ \E t \in Threads : Finish(t)
    \/ Tick

SpecClock == Init /\ [][NextClock]_vars

-----------------------------------------------------------------------------
(* Properties *)

Catalog == Public \cup Private

\* thread t has called api_query and the call is under way or over
Called(t) == pc[t] # "idle"

\* thread t's call has received a response envelope
Received(t) == response[t] # NoResponse

\* C1: a call with an operation name of neither catalog raises the
\* "Unknown feature" exception, and issues no HTTP request and no signature,
\* whatever get_parameters and post_parameters are.
C1_UnknownRaisesWithoutRequest ==
    \A t \in Threads :
        (Called(t) /\ call[t].feature \notin Catalog) =>
            /\ pc[t] = "done"
            /\ outcome[t] = Raised("Exception",
                   <<"Unknown feature: ", call[t].feature, ".">>)
            /\ sent[t] = <<>>
            /\ signed[t] = <<>>
            /\ ~Received(t)

C1_Witness ==
    \E t \in Threads :
        /\ pc[t] = "done"
        /\ call[t].feature \in UnknownNames
        /\ ~call[t].get.isNone
        /\ ~call[t].post.isNone
        /\ outcome[t].exc = "Exception"

\* C2 as stated: an envelope whose Success flag is absent or false makes the
\* call raise CryptopiaAPIException carrying the envelope's Error, and no
\* payload is returned.
C2_AbsentOrFalseRaisesTyped ==
    \A t \in Threads :
        (Received(t) /\ (response[t].Success = Absent
                          \/ ~Truthy(response[t].Success))) =>
            /\ outcome[t].kind = "raised"
            /\ outcome[t].exc = "CryptopiaAPIException"
            /\ outcome[t].error = response[t].Error

\* C2 amended: an envelope that holds a false Success flag and an Error key
\* makes the call raise CryptopiaAPIException carrying that Error; an envelope
\* with no Success key, or with a false Success and no Error key, makes it
\* raise KeyError; in none of these cases is a payload returned or a notice
\* printed.
C2_FalseRaisesTypedAbsentRaisesKeyError ==
    \A t \in Threads :
        (Received(t) /\ (response[t].Success = Absent
                          \/ ~Truthy(response[t].Success))) =>
            /\ outcome[t].kind = "raised"
            /\ outcome[t].value = ""
            /\ notices[t] = <<>>
            /\ IF response[t].Success # Absent /\ response[t].Error # Absent
               THEN outcome[t] = RaisedApi(outcome[t].function_name,
                                           response[t].Error)
               ELSE /\ outcome[t].exc = "KeyError"
                    /\ outcome[t].args =
                         IF response[t].Success = Absent
                         THEN <<"Success">> ELSE <<"Error">>

C2_Witness ==
    \E t \in Threads :
        /\ Received(t)
        /\ response[t].Success = PyFalse
        /\ response[t].Error = "Insufficient Funds"
        /\ response[t].Data = "{Balance: 1.5}"
        /\ outcome[t].exc = "CryptopiaAPIException"
        /\ outcome[t].error = "Insufficient Funds"

\* C3 as stated: the function_name recorded in the CryptopiaAPIException a
\* call raises is the operation name the call was made for.
C3_FunctionNameIsOperation ==
    \A t \in Threads :
        outcome[t].exc = "CryptopiaAPIException" =>
            outcome[t].function_name = call[t].feature

\* C4: an envelope with a true Success flag and a Data key makes the call
\* return the Data value unchanged, null included, whatever the Message is; a
\* non-empty Message is printed and changes nothing else.
C4_SuccessReturnsData ==
    \A t \in Threads :
        (Received(t) /\ response[t].Success = PyTrue
                     /\ response[t].Data # Absent) =>
            /\ outcome[t] = Returned(response[t].Data)
            /\ notices[t] =
                 IF response[t].Message \in {Absent, None, ""}
                 THEN <<>> ELSE <<response[t].Message>>

C4_Witness ==
    \E t \in Threads :
        /\ Received(t)
        /\ response[t].Success = PyTrue
        /\ response[t].Message = "ok"
        /\ response[t].Data = None
        /\ outcome[t].kind = "returned"
        /\ outcome[t].value = None
        /\ notices[t] = <<"ok">>

\* C5 as stated: a call with an operation name of a catalog issues exactly
\* one HTTP request, a GET for a public name and a POST for a private one.
C5_ExactlyOneRequest ==
    \A t \in Threads :
        (Called(t) /\ call[t].feature \in Catalog) =>
            /\ Len(sent[t]) = 1
            /\ sent[t][1].method =
                 IF call[t].feature \in Public THEN "GET" ELSE "POST"

\* C5 amended: a call with an operation name of a catalog issues at most one
\* HTTP request, whatever response follows: exactly one, a GET for a public
\* name and a POST for a private one, unless the call raises before the
\* request is sent, as a private call does when the secret fails to decode,
\* and then none; the catalogs are disjoint.
C5_AtMostOneRequest ==
    /\ Public \cap Private = {}
    /\ \A t \in Threads :
        (Called(t) /\ call[t].feature \in Catalog) =>
            /\ Len(sent[t]) <= 1
            /\ Len(sent[t]) = 0 <=>
                 /\ call[t].feature \in Private
                 /\ pc[t] = "done"
                 /\ outcome[t].exc = "binascii.Error"
                 /\ ~Received(t)
            /\ Len(sent[t]) = 1 =>
                 sent[t][1].method =
                     IF call[t].feature \in Public THEN "GET" ELSE "POST"

C5_Witness ==
    \E t \in Threads :
        /\ pc[t] = "done"
        /\ call[t].feature \in Private
        /\ Received(t)
        /\ response[t].Success = PyFalse
        /\ outcome[t].exc = "CryptopiaAPIException"
        /\ Len(sent[t]) = 1
        /\ sent[t][1].method = "POST"

\* C6: a private call runs secure_headers once, on the URL and the body that
\* the POST carries, and the POST carries the headers secure_headers made for
\* them; a public call runs no secure_headers and sends no Authorization.
C6_SignatureBoundToRequest ==
    \A t \in Threads :
        Called(t) =>
            /\ call[t].feature \in Private =>
                 /\ Len(signed[t]) = 1
                 /\ signed[t][1].url = PrivateUrl(call[t].feature)
                 /\ signed[t][1].post_data = JsonDumps(call[t].post)
                 /\ sent[t] # <<>> =>
                      /\ sent[t][1].url = signed[t][1].url
                      /\ sent[t][1].data = signed[t][1].post_data
                      /\ sent[t][1].headers = signed[t][1].headers
                      /\ sent[t][1].headers =
                           SecureHeaders(Key, secret, sent[t][1].url,
                                         sent[t][1].data,
                                         signed[t][1].now).headers
                      /\ sent[t][1].headers.Authorization # <<>>
            /\ call[t].feature \in Public =>
                 /\ signed[t] = <<>>
                 /\ Len(sent[t]) = 1
                 /\ sent[t][1].headers.Authorization = <<>>

C6_Witness ==
    \E t \in Threads :
        /\ pc[t] = "waiting"
        /\ call[t].feature = "SubmitTrade"
        /\ ~call[t].post.isNone
        /\ Len(signed[t]) = 1
        /\ Len(sent[t]) = 1
        /\ sent[t][1].data = signed[t][1].post_data
        /\ sent[t][1].headers.Authorization # <<>>

\* C7 as stated: the URL a public call requests is the base path, the
\* operation name and the parameter values joined by "/", with no query
\* string made from the parameters.
C7_PublicUrlIsValuesOnly ==
    \A t \in Threads :
        (Called(t) /\ call[t].feature \in Public /\ sent[t] # <<>>) =>
            RequestedUrl(sent[t][1]) =
                <<BaseUrl, call[t].feature, "/">>
                \o (IF call[t].get.isNone THEN <<>>
                    ELSE Join("/", Values(call[t].get.items)))

\* one unit of the nonce, in microseconds
NonceUnitMicros == MicrosPerSecond \div NonceScale

C9_NoNonceSentTwice ==
    \A a, b \in Threads :
        (a # b /\ sent[a] # <<>> /\ sent[b] # <<>>) =>
            /\ signed[a][1].nonce # signed[b][1].nonce
            /\ (sent[a][1].url = sent[b][1].url
                  /\ sent[a][1].data = sent[b][1].data) =>
                 sent[a][1].headers.Authorization
                     # sent[b][1].headers.Authorization

\* RFC 4648: quads of alphabet characters, the last one padded by at most two
IsValidBase64(s) ==
    /\ Len(s) % 4 = 0
    /\ \A i \in 1..Len(s) :
          \/ s[i] \in B64Alphabet
          \/ /\ s[i] = B64Pad
             /\ i >= Len(s) - 1
             /\ \A j \in i..Len(s) : s[j] = B64Pad

\* C10 as stated: when the secret is not valid base64, every private call
\* fails with the decode error and sends no POST, and public calls go
\* through as with any secret.
C10_MalformedSecretFailsPrivateCalls ==
    ~IsValidBase64(secret) =>
        \A t \in Threads :
            Called(t) =>
                /\ call[t].feature \in Private =>
                     /\ pc[t] = "done"
                     /\ outcome[t].exc = "binascii.Error"
                     /\ sent[t] = <<>>
                /\ call[t].feature \in Public =>
                     /\ Len(sent[t]) = 1
                     /\ outcome[t].exc # "binascii.Error"

====
